---- MODULE Spec2Model ----
(***************************************************************************)
(* A model of single-node-kind/generate-plots.py: the walltime parser, the *)
(* LAMMPS log extractor, the diff renderer, the result aggregator, the     *)
(* diff assembler and the entry point.                                     *)
(*                                                                         *)
(* Text is a sequence of one-character strings.  Two multi-character       *)
(* tokens stand for the fixed substrings the code searches for:            *)
(* "Total wall time" and "% CPU use".  Python numbers are records          *)
(* [t, n, d]: t is the Python type, n/d the exact value (d = 0 is the      *)
(* float infinity).  Float minute values are multiples of 1/16, for which  *)
(* the double arithmetic of the code is exact.                             *)
(***************************************************************************)
EXTENDS Integers, Sequences, FiniteSets, TLC

VARIABLES
    call,           \* the pure function under test and its arguments
    ret,            \* what that call returned or raised
    pc,             \* position of main()
    rootExists,     \* os.path.exists(args.results)
    appsLeft,       \* entries of os.listdir(directory) not yet visited
    app,            \* the application directory being read
    result_files,   \* the matching file names of that directory
    iteration,      \* enumerate() index of the file being read, or next
    run_id,         \* run identifier of the file being read
    data,           \* steps of the file being read not yet flattened
    steps,          \* process_results: the step rows so far
    logs,           \* process_results: the log rows so far
    printed,        \* messages printed so far
    report,         \* analysis_report.html as written by this run
    err,            \* the uncaught exception, if any
    listed,         \* history: the listing of each application directory
    runs,           \* history: one entry per result file opened
    origin          \* history: per step row, its file and its input step

mainVars == <<pc, rootExists, appsLeft, app, result_files, iteration, run_id,
              data, steps, logs, printed, report, err, listed, runs, origin>>
pureVars == <<call, ret>>
vars == <<call, ret, pc, rootExists, appsLeft, app, result_files, iteration,
          run_id, data, steps, logs, printed, report, err, listed, runs, origin>>

(***************************************************************************)
(* Bounds of the model.                                                    *)
(***************************************************************************)
MaxLen == 3          \* length of the generated walltime strings
MaxInt == 3          \* magnitude of the integer minute values
MaxSixteenths == 20  \* magnitude of the float minute values, in 1/16
MaxLines == 2        \* lines of a generated log text
MaxText == 2         \* characters of a generated artifact text
MaxArtifacts == 3    \* artifacts in a generated step's metadata
MaxFiles == 2        \* entries of an application directory
MaxRows == 2         \* rows of the step table

None == [t |-> "None"]
Pending == [t |-> "pending"]
NoCall == [f |-> "none"]

(***************************************************************************)
(* Python values.                                                          *)
(***************************************************************************)
PyInt(v) == [t |-> "int", n |-> v, d |-> 1]
PyFloat(num, den) == [t |-> "float", n |-> num, d |-> den]
PyInf == [t |-> "float", n |-> 1, d |-> 0]
PyStr(s) == [t |-> "str", s |-> s]
ValueError(m) == [t |-> "ValueError", msg |-> m]

IsNumber(v) == v.t \in {"int", "float"}
IsRaise(v) == v.t \in {"ValueError", "KeyError", "JSONDecodeError"}

\* a == b as Python compares numbers (90.0 == 90)
NumEq(a, b) == a.n * b.d = b.n * a.d /\ (a.d = 0) = (b.d = 0)

RECURSIVE Pow(_, _)
Pow(b, e) == IF e = 0 THEN 1 ELSE b * Pow(b, e - 1)

\* a + b and a * k for exact values; infinity absorbs
NumAdd(a, b) ==
    IF a.d = 0 \/ b.d = 0 THEN PyInf
    ELSE PyFloat(a.n * b.d + b.n * a.d, a.d * b.d)
NumScale(a, k) == IF a.d = 0 THEN PyInf ELSE PyFloat(a.n * k, a.d)

\* int(x): truncation toward zero
IntOfFloored(x) == PyInt(x.n \div x.d)
IntOf(x) ==
    IF x.n >= 0 THEN PyInt(x.n \div x.d) ELSE PyInt(-((-x.n) \div x.d))

(***************************************************************************)
(* Strings.                                                                *)
(***************************************************************************)
Digits == {"0", "1", "2", "3", "4", "5", "6", "7", "8", "9"}
DigitVal(c) ==
    CASE c = "0" -> 0 [] c = "1" -> 1 [] c = "2" -> 2 [] c = "3" -> 3
      [] c = "4" -> 4 [] c = "5" -> 5 [] c = "6" -> 6 [] c = "7" -> 7
      [] c = "8" -> 8 [] c = "9" -> 9

Contains(s, c) == \E i \in 1..Len(s) : s[i] = c
Count(s, c) == Cardinality({i \in 1..Len(s) : s[i] = c})
Reverse(s) == [i \in 1..Len(s) |-> s[Len(s) + 1 - i]]

\* str.isnumeric() on the model's alphabet: non-empty, digits only
IsNumeric(s) == Len(s) > 0 /\ \A i \in 1..Len(s) : s[i] \in Digits

\* s.split(sep) for a one-character separator
RECURSIVE Split(_, _)
Split(s, sep) ==
    IF ~Contains(s, sep) THEN <<s>>
    ELSE LET i == CHOOSE k \in 1..Len(s) :
                      s[k] = sep /\ \A j \in 1..(k - 1) : s[j] # sep
         IN <<SubSeq(s, 1, i - 1)>> \o Split(SubSeq(s, i + 1, Len(s)), sep)

\* value of a digit string read as a decimal integer ("" is 0)
RECURSIVE DigitsValue(_)
DigitsValue(s) ==
    IF Len(s) = 0 THEN 0
    ELSE 10 * DigitsValue(SubSeq(s, 1, Len(s) - 1)) + DigitVal(s[Len(s)])

\* float(s) on the model's alphabet: digits with at most one point and at
\* least one digit, or "inf"; anything else raises ValueError
IsDecimal(s) ==
    /\ \A i \in 1..Len(s) : s[i] \in Digits \cup {"."}
    /\ Count(s, ".") <= 1
    /\ \E i \in 1..Len(s) : s[i] \in Digits
ParseFloat(s) ==
    IF s = <<"i", "n", "f">> THEN PyInf
    ELSE IF ~IsDecimal(s)
    THEN ValueError([fmt |-> "could not convert string to float: '{}'",
                     arg |-> s])
    ELSE LET parts == Split(s, ".")
             whole == parts[1]
             frac == IF Len(parts) > 1 THEN parts[2] ELSE <<>>
         IN PyFloat(DigitsValue(whole \o frac), Pow(10, Len(frac)))

(***************************************************************************)
(* convert_walltime_to_seconds                                             *)
(***************************************************************************)
\* the loop of the colon branch over walltime.split(":")[::-1]
RECURSIVE ColonSum(_, _, _)
ColonSum(parts, i, seconds) ==
    IF i > Len(parts) THEN seconds
    ELSE LET v == ParseFloat(parts[i])
         IN IF IsRaise(v) THEN v
            ELSE ColonSum(parts, i + 1,
                          NumAdd(seconds, NumScale(v, Pow(60, i - 1))))

\* the f-string of the message, with the value it interpolates
WalltimeMsg(walltime) ==
    [fmt |-> "Walltime value '{}' is not an integer or colon-separated string.",
     arg |-> walltime]

\* a variant that takes a malformed duration for 0 seconds
convert_walltime_lenient(walltime) ==
    IF IsNumber(walltime)
    THEN IntOf(NumScale(walltime, 60))
    ELSE IF IsNumeric(walltime.s)
    THEN IntOf(NumScale(ParseFloat(walltime.s), 60))
    ELSE IF Contains(walltime.s, ":")
    THEN ColonSum(Reverse(Split(walltime.s, ":")), 1, PyFloat(0, 1))
    ELSE PyInt(0)

convert_walltime_to_seconds(walltime) ==
    IF IsNumber(walltime)
    THEN IntOf(NumScale(walltime, 60))
    ELSE IF IsNumeric(walltime.s)
    THEN IntOf(NumScale(ParseFloat(walltime.s), 60))
    ELSE IF Contains(walltime.s, ":")
    THEN ColonSum(Reverse(Split(walltime.s, ":")), 1, PyFloat(0, 1))
    ELSE IF walltime.s = <<>> \/ walltime.s = <<"i", "n", "f">>
    THEN PyInt(0)
    ELSE ValueError(WalltimeMsg(walltime.s))

(***************************************************************************)
(* parse_lammps_log.  A log text is a sequence of lines (the text split on *)
(* "\n"), a line a sequence of characters and of the two tokens below.     *)
(***************************************************************************)
TWT == "Total wall time"
PCU == "% CPU use"

HasMarker(x) == Contains(x, TWT)

\* x.split("Total wall time: ")[-1]: what follows the last occurrence of
\* the marker with its colon and space, the whole line when there is none
AfterMarker(x) ==
    LET at == {k \in 1..(Len(x) - 2) :
                  x[k] = TWT /\ x[k + 1] = ":" /\ x[k + 2] = " "}
    IN IF at = {} THEN x
       ELSE LET k == CHOOSE m \in at : \A o \in at : o <= m
            IN SubSeq(x, k + 3, Len(x))

RECURSIVE SelectSeqBy(_, _)
SelectSeqBy(s, keep) ==
    IF Len(s) = 0 THEN <<>>
    ELSE (IF keep[1] THEN <<s[1]>> ELSE <<>>)
         \o SelectSeqBy(Tail(s), Tail(keep))

\* the lines joined again by "\n": the text the regular expression scans
RECURSIVE JoinLines(_)
JoinLines(lines) ==
    IF Len(lines) = 0 THEN <<>>
    ELSE IF Len(lines) = 1 THEN lines[1]
    ELSE lines[1] \o <<"\n">> \o JoinLines(Tail(lines))

\* re.search(r"([\d.]+)% CPU use", content).group(1), None without a match:
\* the leftmost run of digits and points that ends right before the token
CpuClass == Digits \cup {"."}
CpuSearch(content) ==
    LET starts == {i \in 1..Len(content) :
                      \E j \in i..(Len(content) - 1) :
                          /\ \A k \in i..j : content[k] \in CpuClass
                          /\ content[j + 1] = PCU}
    IN IF starts = {} THEN None
       ELSE LET i == CHOOSE m \in starts : \A o \in starts : m <= o
                j == CHOOSE m \in i..(Len(content) - 1) :
                         /\ \A k \in i..m : content[k] \in CpuClass
                         /\ content[m + 1] = PCU
            IN PyStr(SubSeq(content, i, j))

PyTuple(w, c) == [t |-> "tuple", wall_time |-> w, cpu_utilization |-> c]

\* a variant that searches for the CPU figure before looking at the marker
parse_lammps_log_no_early_return(log_content) ==
    LET marked == SelectSeqBy(log_content,
                      [i \in 1..Len(log_content) |-> HasMarker(log_content[i])])
        m == CpuSearch(JoinLines(log_content))
        cpu == IF m.t = "None" THEN None ELSE ParseFloat(m.s)
        wall == IF Len(marked) = 0 THEN None
                ELSE convert_walltime_to_seconds(PyStr(AfterMarker(marked[1])))
    IN IF IsRaise(wall) THEN wall
       ELSE IF IsRaise(cpu) THEN cpu
       ELSE PyTuple(wall, cpu)

parse_lammps_log(log_content) ==
    LET wall_time_list ==
            LET marked == SelectSeqBy(log_content,
                    [i \in 1..Len(log_content) |-> HasMarker(log_content[i])])
            IN [i \in 1..Len(marked) |-> AfterMarker(marked[i])]
    IN IF Len(wall_time_list) = 0 THEN PyTuple(None, None)
       ELSE LET wall_time ==
                    convert_walltime_to_seconds(PyStr(wall_time_list[1]))
                cpu_utilization_match == CpuSearch(JoinLines(log_content))
                cpu_utilization ==
                    IF cpu_utilization_match.t = "None" THEN None
                    ELSE ParseFloat(cpu_utilization_match.s)
            IN IF IsRaise(wall_time) THEN wall_time
               ELSE IF IsRaise(cpu_utilization) THEN cpu_utilization
               ELSE PyTuple(wall_time, cpu_utilization)

(***************************************************************************)
(* generate_diff_html.  HTML is kept as structure: the placeholder is a    *)
(* paragraph, difflib's document a table with a header row holding the two *)
(* descriptors (HtmlDiff omits the header row when both are empty) over    *)
(* the two lists of lines.                                                 *)
(***************************************************************************)
NoChanges == [tag |-> "p", text |-> "No changes detected between these attempts."]

\* str.splitlines(): split at "\n", no empty last line
splitlines(text) ==
    LET parts == Split(text, "\n")
    IN IF parts[Len(parts)] = <<>> THEN SubSeq(parts, 1, Len(parts) - 1)
       ELSE parts

\* difflib.HtmlDiff(wrapcolumn=80).make_file(fromlines, tolines, fromdesc, todesc)
make_file(fromlines, tolines, fromdesc, todesc) ==
    [tag |-> "html",
     header |-> IF fromdesc # "" \/ todesc # "" THEN <<fromdesc, todesc>>
                ELSE <<>>,
     fromlines |-> fromlines,
     tolines |-> tolines]

\* a variant that diffs identical texts too
generate_diff_html_no_equal_check(old_content, new_content, from_desc, to_desc) ==
    IF old_content = <<>> \/ new_content = <<>>
    THEN NoChanges
    ELSE make_file(splitlines(old_content), splitlines(new_content),
                   from_desc, to_desc)

generate_diff_html(old_content, new_content, from_desc, to_desc) ==
    IF old_content = <<>> \/ new_content = <<>> \/ old_content = new_content
    THEN NoChanges
    ELSE make_file(splitlines(old_content), splitlines(new_content),
                   from_desc, to_desc)

(***************************************************************************)
(* generate_all_diffs_html.  A dict is a function from its keys; a data    *)
(* frame is the sequence of its rows.                                      *)
(***************************************************************************)
EmptyDict == [k \in {} |-> 0]
Get(d, k, default) == IF k \in DOMAIN d THEN d[k] ELSE default

\* the order of str for the characters run identifiers are made of
CharRank(c) ==
    CASE c = "-" -> 0
      [] c \in Digits -> 1 + DigitVal(c)
      [] c = "a" -> 11
      [] c = "b" -> 12
      [] OTHER -> 13
LexLess(x, y) ==
    \/ /\ Len(x) < Len(y)
       /\ \A i \in 1..Len(x) : x[i] = y[i]
    \/ \E i \in 1..Len(x) :
          /\ i <= Len(y)
          /\ \A j \in 1..(i - 1) : x[j] = y[j]
          /\ CharRank(x[i]) < CharRank(y[i])

\* the group keys of groupby("run_id"), which sorts them
RECURSIVE SortedKeys(_)
SortedKeys(keys) ==
    IF keys = {} THEN <<>>
    ELSE LET k == CHOOSE m \in keys : \A o \in keys \ {m} : LexLess(m, o)
         IN <<k>> \o SortedKeys(keys \ {k})

AttemptOf(s) == Get(s, "attempt", 0)

\* a variant that leaves the artifacts in the order of the metadata
Unsorted(artifacts) == artifacts

\* sorted(artifacts, key=lambda x: x.get("attempt", 0)): stable, ascending
RECURSIVE SortedByAttempt(_)
SortedByAttempt(artifacts) ==
    IF Len(artifacts) <= 1 THEN artifacts
    ELSE LET rest == SortedByAttempt(SubSeq(artifacts, 1, Len(artifacts) - 1))
             x == artifacts[Len(artifacts)]
             pos == Cardinality({i \in 1..Len(rest) :
                                    AttemptOf(rest[i]) <= AttemptOf(x)})
         IN SubSeq(rest, 1, pos) \o <<x>> \o SubSeq(rest, pos + 1, Len(rest))

\* [s for s in metadata.get("steps", []) if s.get("type") == kind], sorted
ArtifactsOf(metadata, kind) ==
    SortedByAttempt(
        SelectSeq(Get(metadata, "steps", <<>>),
                  LAMBDA a : "type" \in DOMAIN a /\ a.type = kind))

AttemptDesc(s) == "Attempt " \o ToString(AttemptOf(s))

\* the loop over consecutive pairs: one <details> per pair
PairSections(artifacts) ==
    [i \in 1..(Len(artifacts) - 1) |->
        LET old == artifacts[i]
            new == artifacts[i + 1]
            from_desc == AttemptDesc(old)
            to_desc == AttemptDesc(new)
        IN [tag |-> "details",
            summary |-> from_desc \o " vs. " \o to_desc,
            content |-> generate_diff_html(Get(old, "item", <<>>),
                                           Get(new, "item", <<>>),
                                           from_desc, to_desc)]]

\* the part of run_html one role contributes
RoleHtml(group, agent, kind, title) ==
    LET role_step == SelectSeq(group, LAMBDA row : row.agent = agent)
    IN IF Len(role_step) = 0 THEN <<>>
       ELSE LET artifacts == ArtifactsOf(role_step[1].metadata, kind)
            IN IF Len(artifacts) > 1
               THEN <<[tag |-> "h4", text |-> title]>> \o PairSections(artifacts)
               ELSE <<>>

RunHtml(group) ==
    RoleHtml(group, "build", "dockerfile", "Dockerfile Changes")
    \o RoleHtml(group, "kubernetes-job", "crd", "Kubernetes Job YAML Changes")

RECURSIVE AllRunsHtml(_, _)
AllRunsHtml(steps_df, keys) ==
    IF Len(keys) = 0 THEN <<>>
    ELSE LET id == keys[1]
             group == SelectSeq(steps_df, LAMBDA row : row.run_id = id)
             run_html == RunHtml(group)
         IN (IF Len(run_html) > 0
             THEN <<[tag |-> "details", class |-> "run-details",
                     summary |-> id, container |-> run_html]>>
             ELSE <<>>)
            \o AllRunsHtml(steps_df, Tail(keys))

NoData == [tag |-> "p", text |-> "No data available to generate diffs."]
NoRuns == [tag |-> "p",
           text |-> "No runs had multiple attempts to generate a diff."]

generate_all_diffs_html(steps_df) ==
    IF Len(steps_df) = 0 THEN NoData
    ELSE LET all_runs_html ==
                 AllRunsHtml(steps_df,
                     SortedKeys({steps_df[i].run_id : i \in 1..Len(steps_df)}))
         IN IF Len(all_runs_html) = 0 THEN NoRuns
            ELSE [tag |-> "fragment", children |-> all_runs_html]

(***************************************************************************)
(* process_results and main.                                               *)
(***************************************************************************)
\* str(n) for n >= 0
RECURSIVE ToDecimal(_)
ToDecimal(n) ==
    LET digit == CHOOSE c \in Digits : DigitVal(c) = n % 10
    IN IF n < 10 THEN <<digit>> ELSE ToDecimal(n \div 10) \o <<digit>>

\* a variant that numbers the files from 0
RunIdZeroBased(application, index) ==
    application \o <<"-">> \o ToDecimal(index)

\* f"{app}-{iteration + 1}"
RunId(application, index) ==
    application \o <<"-">> \o ToDecimal(index + 1)

\* f.startswith("results-") and f.endswith(".json"); a file name is the
\* sequence of its parts
IsResultFile(f) ==
    Len(f) > 0 /\ f[1] = "results-" /\ f[Len(f)] = ".json"

\* a variant that reads the field without counting the first attempt
AttemptsAsGiven(step) == Get(step, "attempts", 0)

\* step.get("attempts", 0) + 1
AttemptsOf(step) == Get(step, "attempts", 0) + 1

StepInfo(application, id, step) ==
    [application |-> application,
     run_id |-> id,
     agent |-> Get(step, "agent", None),
     total_seconds |-> Get(step, "total_seconds", None),
     attempts |-> AttemptsOf(step),
     metadata |-> Get(step, "metadata", EmptyDict)]

\* [x for x in step.get("metadata", {}).get("logs", []) if x["type"] == "log"]
LogItems(step) ==
    SelectSeq(Get(Get(step, "metadata", EmptyDict), "logs", <<>>),
              LAMBDA x : x.type = "log")

\* a variant that tests the two metrics for truth
BothTruthy(wall_time, cpu_utilization) ==
    /\ wall_time.t # "None" /\ wall_time.n # 0
    /\ cpu_utilization.t # "None" /\ cpu_utilization.n # 0

\* wall_time is not None and cpu_utilization is not None
BothPresent(wall_time, cpu_utilization) ==
    wall_time.t # "None" /\ cpu_utilization.t # "None"

\* the part of the loop body after steps.append: the exception it raises,
\* if any, and the log rows it appends
LogOutcome(application, id, step) ==
    IF Get(step, "agent", None) # "kubernetes-job" \/ Len(LogItems(step)) = 0
    THEN [raised |-> None, rows |-> <<>>]
    ELSE LET parsed == parse_lammps_log(LogItems(step)[1].item)
         IN IF IsRaise(parsed) THEN [raised |-> parsed, rows |-> <<>>]
            ELSE IF BothPresent(parsed.wall_time, parsed.cpu_utilization)
            THEN [raised |-> None,
                  rows |-> <<[run_id |-> id,
                              application |-> application,
                              wall_time |-> parsed.wall_time,
                              cpu_utilization |-> parsed.cpu_utilization]>>]
            ELSE [raised |-> None, rows |-> <<>>]

\* a variant for which no table is empty
NeverEmpty(df) == FALSE

\* DataFrame.empty
IsEmpty(df) == Len(df) = 0

MissingWarning == "Warning: results directory does not exist."
NoResultsNotice == "No valid result files found. Report cannot be generated."
ReportNotice == "Report successfully generated"

(***************************************************************************)
(* The state of main() while a pure function is exercised on its own.      *)
(***************************************************************************)
MainIdle ==
    /\ pc = "idle"
    /\ rootExists = FALSE
    /\ appsLeft = <<>>
    /\ app = <<>>
    /\ result_files = <<>>
    /\ iteration = 0
    /\ run_id = <<>>
    /\ data = <<>>
    /\ steps = <<>>
    /\ logs = <<>>
    /\ printed = <<>>
    /\ report = None
    /\ err = None
    /\ listed = <<>>
    /\ runs = <<>>
    /\ origin = <<>>

(***************************************************************************)
(* SpecWalltime: convert_walltime_to_seconds on every bounded input.       *)
(***************************************************************************)
WtAlphabet == {"0", "1", "3", ":", ".", "a"}
WtStrings == UNION {[1..k -> WtAlphabet] : k \in 0..MaxLen}
WtExamples ==
    { <<"i", "n", "f">>, <<"a", "b", "c">>, <<"1", ":", "3", "0">>,
      <<"1", ":", "0", "1", ":", "3", "0">>, <<"0", ":", "0", "0", ":", "2", "7">>,
      <<"1", ":", "3", "0", ".", "5">>, <<"9", "0">>, <<"1", ".", "5">> }
WtInputs ==
    {PyInt(v) : v \in (-MaxInt)..MaxInt}
    \cup {PyFloat(k, 16) : k \in (-MaxSixteenths)..MaxSixteenths}
    \cup {PyStr(s) : s \in WtStrings \cup WtExamples}

InitWalltime ==
    /\ call \in {[f |-> "convert_walltime_to_seconds", walltime |-> w] :
                    w \in WtInputs}
    /\ ret = Pending
    /\ MainIdle

Convert ==
    /\ call.f = "convert_walltime_to_seconds"
    /\ ret = Pending
    /\ ret' = convert_walltime_to_seconds(call.walltime)
    /\ UNCHANGED <<call, mainVars>>

SpecWalltime == InitWalltime /\ [][Convert]_vars

Converted == call.f = "convert_walltime_to_seconds" /\ ret # Pending

\* round(n/d) as Python rounds: to nearest, ties to even
RoundHalfEven(n, d) ==
    LET q == n \div d
        r == n - q * d
    IN IF 2 * r < d THEN q
       ELSE IF 2 * r > d THEN q + 1
       ELSE IF q % 2 = 0 THEN q ELSE q + 1

\* a numeric string in the sense of claim C1: decimal digits, possibly
\* with a fractional part
IsMinutesString(w) == w.t = "str" /\ IsDecimal(w.s)
MinutesOf(w) == IF w.t = "str" THEN ParseFloat(w.s) ELSE w

\* C1 (as stated): for every numeric value m and every numeric string m,
\* fractional ones included, convert_walltime_to_seconds(m) returns the
\* integer round(m*60).
C1_RoundedMinutes ==
    (Converted /\ (IsNumber(call.walltime) \/ IsMinutesString(call.walltime)))
        => ret = PyInt(RoundHalfEven(MinutesOf(call.walltime).n * 60,
                                     MinutesOf(call.walltime).d))

\* C1 (amended): for a numeric value m the result is the integer obtained
\* by truncating m*60 toward zero; for a digit-only string it is the integer
\* 60 times its decimal value; a string with a fractional part ("1.5") is
\* not numeric for the code and raises a ValueError naming the string.
C1_TruncatedMinutes ==
    Converted =>
        LET w == call.walltime IN
        /\ IsNumber(w) =>
              /\ ret.t = "int"
              /\ w.n >= 0 => /\ ret.n * w.d <= w.n * 60
                              /\ w.n * 60 < (ret.n + 1) * w.d
              /\ w.n < 0 => /\ ret.n * w.d >= w.n * 60
                             /\ w.n * 60 > (ret.n - 1) * w.d
        /\ (w.t = "str" /\ IsNumeric(w.s)) =>
              ret = PyInt(60 * DigitsValue(w.s))
        /\ (IsMinutesString(w) /\ Contains(w.s, ".")) =>
              /\ ret.t = "ValueError"
              /\ ret.msg.arg = w.s

\* C1 witness: a fractional number of minutes whose seconds are not whole
\* has been converted, and a fractional string has been rejected
C1_Witness ==
    /\ Converted
    /\ \/ /\ call.walltime.t = "float"
          /\ ret.t = "int"
          /\ ret.n * call.walltime.d # call.walltime.n * 60
       \/ /\ call.walltime = PyStr(<<"1", ".", "5">>)
          /\ ret.t = "ValueError"

\* the positional sum of a colon string's components, rightmost first
RECURSIVE RefSum(_)
RefSum(parts) ==
    IF Len(parts) = 0 THEN PyFloat(0, 1)
    ELSE NumAdd(ParseFloat(parts[Len(parts)]),
                NumScale(RefSum(SubSeq(parts, 1, Len(parts) - 1)), 60))

IsColonDuration(s) ==
    /\ Contains(s, ":")
    /\ \A i \in 1..Len(Split(s, ":")) : IsDecimal(Split(s, ":")[i])

\* C2: for every non-numeric string, the result is an integer count of
\* seconds: the positional sum of the components (weight 60^i from the right)
\* for a colon string with numeric components, and 0 for "" and "inf".
C2_ColonIntegerSeconds ==
    (Converted /\ call.walltime.t = "str" /\ ~IsNumeric(call.walltime.s)) =>
        LET s == call.walltime.s IN
        /\ IsColonDuration(s) =>
              ret.t = "int" /\ NumEq(ret, RefSum(Split(s, ":")))
        /\ (s = <<>> \/ s = <<"i", "n", "f">>) => ret = PyInt(0)

(***************************************************************************)
(* SpecLog: parse_lammps_log on every bounded log text.                    *)
(***************************************************************************)
LogLines ==
    { <<TWT, ":", " ", "2", ":", "0", "0">>,        \* Total wall time: 2:00
      <<TWT, ":", " ", "0", ":", "0", "0">>,        \* Total wall time: 0:00
      <<TWT, ":", " ", "a">>,                       \* Total wall time: a
      <<TWT, ":", " ">>,                            \* nothing after the marker
      <<TWT>>,                                      \* marker without ": "
      <<TWT, ":", " ", "1", ":", "0", " ", TWT, ":", " ", "3">>,
      <<"5", "5", ".", "0", PCU>>,                  \* 55.0% CPU use
      <<"2", "5", "0", ".", "0", PCU, " ", "a">>,   \* 250.0% CPU use a
      <<"a", " ", "9", PCU>>,                       \* a 9% CPU use
      <<".", ".", PCU>>,                            \* ..% CPU use
      <<"a">>,
      <<>> }
LogTexts == UNION {[1..k -> LogLines] : k \in 0..MaxLines}

InitLog ==
    /\ call \in {[f |-> "parse_lammps_log", log_content |-> x] : x \in LogTexts}
    /\ ret = Pending
    /\ MainIdle

Parse ==
    /\ call.f = "parse_lammps_log"
    /\ ret = Pending
    /\ ret' = parse_lammps_log(call.log_content)
    /\ UNCHANGED <<call, mainVars>>

SpecLog == InitLog /\ [][Parse]_vars

Parsed == call.f = "parse_lammps_log" /\ ret # Pending

\* some line of the text contains the total-wall-time marker
WallMarkerPresent(text) ==
    \E l \in 1..Len(text) : \E i \in 1..Len(text[l]) : text[l][i] = TWT
\* the text has a "<number>% CPU use" match
CpuMarkerPresent(text) ==
    \E l \in 1..Len(text) : \E i \in 2..Len(text[l]) :
        text[l][i] = PCU /\ text[l][i - 1] \in CpuClass

\* C4 (as stated): the two extractions are independent: the wall-time field
\* is None exactly when no line has the marker, the CPU field is None exactly
\* when the text has no CPU match, and the call never raises when the marker
\* is absent.
C4_Independent ==
    Parsed =>
        /\ ~WallMarkerPresent(call.log_content) => ret.t = "tuple"
        /\ ret.t = "tuple" =>
              /\ (ret.wall_time.t = "None")
                    <=> ~WallMarkerPresent(call.log_content)
              /\ (ret.cpu_utilization.t = "None")
                    <=> ~CpuMarkerPresent(call.log_content)

\* C4 (amended): the wall-time field is None exactly when no line has the
\* marker; the CPU field is None exactly when the marker is absent or the
\* text has no CPU match (without the marker the call returns (None, None)
\* and never looks for the CPU figure); the call never raises when the
\* marker is absent.
C4_WallFirst ==
    Parsed =>
        /\ ~WallMarkerPresent(call.log_content) => ret = PyTuple(None, None)
        /\ ret.t = "tuple" =>
              /\ (ret.wall_time.t = "None")
                    <=> ~WallMarkerPresent(call.log_content)
              /\ (ret.cpu_utilization.t = "None")
                    <=> (~WallMarkerPresent(call.log_content)
                         \/ ~CpuMarkerPresent(call.log_content))

\* C4 witness: a text with the CPU figure and no marker has been parsed,
\* and so has a text with the marker and no CPU figure
C4_Witness ==
    /\ Parsed
    /\ ret.t = "tuple"
    /\ CpuMarkerPresent(call.log_content)
    /\ ~WallMarkerPresent(call.log_content)
    /\ ret.cpu_utilization.t = "None"

(***************************************************************************)
(* SpecDiff: generate_diff_html on every bounded pair of texts.            *)
(***************************************************************************)
DiffAlphabet == {"a", "b", "\n"}
DiffTexts == UNION {[1..k -> DiffAlphabet] : k \in 0..MaxText}
Descs == {"", "Attempt 1", "Attempt 2"}

InitDiff ==
    /\ call \in {[f |-> "generate_diff_html", old_content |-> o,
                   new_content |-> n, from_desc |-> fd, to_desc |-> td] :
                      o \in DiffTexts, n \in DiffTexts, fd \in Descs, td \in Descs}
    /\ ret = Pending
    /\ MainIdle

Render ==
    /\ call.f = "generate_diff_html"
    /\ ret = Pending
    /\ ret' = generate_diff_html(call.old_content, call.new_content,
                                 call.from_desc, call.to_desc)
    /\ UNCHANGED <<call, mainVars>>

SpecDiff == InitDiff /\ [][Render]_vars

Rendered == call.f = "generate_diff_html" /\ ret # Pending

\* the descriptor occurs in the HTML (the empty string occurs in any text)
HtmlContains(html, desc) ==
    desc = "" \/ (html.tag = "html" /\ \E i \in 1..Len(html.header) :
                                          html.header[i] = desc)

\* C5: generate_diff_html returns the fixed "No changes detected between
\* these attempts." placeholder, and runs no diff, exactly when old is empty,
\* new is empty or old equals new; for two distinct non-empty texts it returns
\* a diff document containing both descriptors.
C5_PlaceholderOrDiff ==
    Rendered =>
        LET o == call.old_content
            n == call.new_content
            same == Len(o) = 0 \/ Len(n) = 0
                    \/ (Len(o) = Len(n) /\ \A i \in 1..Len(o) : o[i] = n[i])
        IN /\ same <=> (ret.tag = "p")
           /\ ret.tag = "p" =>
                 ret.text = "No changes detected between these attempts."
           /\ ~same => /\ ret.tag = "html"
                       /\ HtmlContains(ret, call.from_desc)
                       /\ HtmlContains(ret, call.to_desc)

\* C5 witness: two distinct non-empty texts with non-empty descriptors have
\* been diffed
C5_Witness ==
    /\ Rendered
    /\ call.old_content # <<>> /\ call.new_content # <<>>
    /\ call.old_content # call.new_content
    /\ call.from_desc = "Attempt 1" /\ call.to_desc = "Attempt 2"
    /\ ret.tag = "html"

(***************************************************************************)
(* SpecDiffs: generate_all_diffs_html on bounded step tables.              *)
(***************************************************************************)
Artifact(kind, attempt, item) == [type |-> kind, attempt |-> attempt, item |-> item]
BuildArtifacts ==
    { Artifact("dockerfile", 1, <<"a">>), Artifact("dockerfile", 2, <<"b">>),
      Artifact("dockerfile", 3, <<"b">>),
      [type |-> "dockerfile", item |-> <<"a", "\n">>],     \* no attempt
      Artifact("crd", 1, <<"a">>) }
JobArtifacts ==
    { Artifact("crd", 2, <<"b">>), Artifact("crd", 1, <<"a">>),
      Artifact("dockerfile", 1, <<"a">>) }
MetasOver(artifacts, n) ==
    {EmptyDict} \cup {[steps |-> x] : x \in UNION {[1..k -> artifacts] : k \in 0..n}}
BuildMetas == MetasOver(BuildArtifacts, MaxArtifacts)
JobMetas == MetasOver(JobArtifacts, MaxArtifacts)
LaterMetas ==
    { EmptyDict,
      [steps |-> <<Artifact("dockerfile", 1, <<"a">>),
                   Artifact("dockerfile", 2, <<"b">>)>>] }

Row(id, agent, metadata) ==
    [application |-> <<"a">>, run_id |-> id, agent |-> agent,
     total_seconds |-> 10, attempts |-> 1, metadata |-> metadata]
RunA1 == <<"a", "-", "1">>
RunA2 == <<"a", "-", "2">>
StepTables ==
    {<<>>}
    \cup {<<Row(RunA1, "build", m)>> : m \in BuildMetas}
    \cup {<<Row(RunA1, "kubernetes-job", m)>> : m \in JobMetas}
    \cup {<<Row(RunA1, "build", m), Row(RunA1, "kubernetes-job", n)>> :
              m \in BuildMetas, n \in JobMetas}
    \cup {<<Row(RunA1, "build", m), Row(RunA1, "build", n)>> :
              m \in BuildMetas, n \in LaterMetas}
    \cup {<<Row(RunA2, "build", m), Row(RunA1, "build", n)>> :
              m \in BuildMetas, n \in LaterMetas}
    \cup {<<Row(RunA1, "optimize", n), Row(RunA1, "kubernetes-job", m)>> :
              m \in JobMetas, n \in LaterMetas}

InitDiffs ==
    /\ call \in {[f |-> "generate_all_diffs_html", steps_df |-> x] :
                    x \in StepTables}
    /\ ret = Pending
    /\ MainIdle

Assemble ==
    /\ call.f = "generate_all_diffs_html"
    /\ ret = Pending
    /\ ret' = generate_all_diffs_html(call.steps_df)
    /\ UNCHANGED <<call, mainVars>>

SpecDiffs == InitDiffs /\ [][Assemble]_vars

Assembled == call.f = "generate_all_diffs_html" /\ ret # Pending

\* the artifacts of one type in the metadata of the first row of a role, in
\* the order of the metadata; none when the run has no row of the role
RoleArtifacts(df, id, agent, kind) ==
    LET rows == {i \in 1..Len(df) : df[i].run_id = id /\ df[i].agent = agent}
    IN IF rows = {} THEN <<>>
       ELSE LET first == CHOOSE i \in rows : \A j \in rows : i <= j
                given == IF "steps" \in DOMAIN df[first].metadata
                          THEN df[first].metadata.steps ELSE <<>>
            IN SelectSeq(given, LAMBDA a : a.type = kind)

SectionsFor(arts) == IF Len(arts) >= 2 THEN Len(arts) - 1 ELSE 0
PartLen(arts) == IF Len(arts) >= 2 THEN Len(arts) ELSE 0

\* part is a title followed by one section per consecutive pair of arts taken
\* in some ascending order of attempt, each labeled by the two attempts and
\* holding the comparison of the two payloads
IsRolePart(part, arts, title) ==
    IF Len(arts) < 2 THEN part = <<>>
    ELSE /\ Len(part) = Len(arts)
         /\ part[1] = [tag |-> "h4", text |-> title]
         /\ \E p \in [1..Len(arts) -> 1..Len(arts)] :
              /\ \A i, j \in 1..Len(arts) : i # j => p[i] # p[j]
              /\ \A i \in 1..(Len(arts) - 1) :
                    LET old == arts[p[i]]
                        new == arts[p[i + 1]]
                        sec == part[i + 1]
                    IN /\ AttemptOf(old) <= AttemptOf(new)
                       /\ sec.tag = "details"
                       /\ sec.summary = "Attempt " \o ToString(AttemptOf(old))
                              \o " vs. Attempt " \o ToString(AttemptOf(new))
                       /\ (sec.content.tag = "p") <=> old.item = new.item
                       /\ sec.content.tag # "p" =>
                             /\ sec.content.fromlines = splitlines(old.item)
                             /\ sec.content.tolines = splitlines(new.item)

AppA == [name |-> <<"a">>, isdir |-> TRUE]
AppA1 == [name |-> <<"a", "-", "1">>, isdir |-> TRUE]
Readme == [name |-> <<"b">>, isdir |-> FALSE]
\* os.listdir(directory): the entries of the results root
RootListings == { <<>>, <<Readme>>, <<Readme, AppA>>, <<AppA1, AppA>> }
\* os.listdir(app_dir): k result files, listed against the order of their
\* names, after a file that is no result file or a stale copy of one
ResultName(k) == <<"results-", ToString(k), ".json">>
OtherNames == { <<"results-", "1", ".txt">>, <<"old-", "results-", "1", ".json">> }
AppListings ==
    {[i \in 1..k |-> ResultName(k + 1 - i)] : k \in 0..MaxFiles}
    \cup {<<o>> \o [i \in 1..k |-> ResultName(k + 1 - i)] :
              o \in OtherNames, k \in 0..(MaxFiles - 1)}

LogEntry(kind, text) == [type |-> kind, item |-> text]
WallLine == <<TWT, ":", " ", "2", ":", "0", "0">>
ZeroWallLine == <<TWT, ":", " ", "0", ":", "0", "0">>
CpuLine == <<"5", "5", ".", "0", PCU>>
BigCpuLine == <<"2", "5", "0", ".", "0", PCU, " ", "a">>
BadWallLine == <<TWT, ":", " ", "a", "b", "c">>
StepChoices ==
    { [agent |-> "build", total_seconds |-> 10, attempts |-> 1,
       metadata |-> [steps |-> <<Artifact("dockerfile", 2, <<"b">>),
                                 Artifact("dockerfile", 1, <<"a">>)>>,
                     logs |-> <<LogEntry("log", <<WallLine, CpuLine>>)>>]],
      [agent |-> "kubernetes-job", total_seconds |-> 20, attempts |-> 0,
       metadata |-> [logs |-> <<LogEntry("log", <<WallLine, CpuLine>>)>>]],
      [agent |-> "kubernetes-job", total_seconds |-> 20,
       metadata |-> [logs |-> <<LogEntry("event", <<CpuLine>>),
                                LogEntry("log", <<BigCpuLine, ZeroWallLine>>)>>]],
      [agent |-> "kubernetes-job", total_seconds |-> 20,
       metadata |-> [logs |-> <<LogEntry("log", <<WallLine>>),
                                LogEntry("log", <<WallLine, CpuLine>>)>>]],
      [agent |-> "kubernetes-job", total_seconds |-> 20,
       metadata |-> [logs |-> <<LogEntry("log", <<CpuLine, BadWallLine>>)>>]],
      [agent |-> "kubernetes-job", total_seconds |-> 20, attempts |-> -1] }
FileContents == UNION {[1..k -> StepChoices] : k \in 0..MaxRows}

Init ==
    /\ call = NoCall
    /\ ret = None
    /\ pc = "main"
    /\ rootExists \in BOOLEAN
    /\ appsLeft = <<>>
    /\ app = <<>>
    /\ result_files = <<>>
    /\ iteration = 0
    /\ run_id = <<>>
    /\ data = <<>>
    /\ steps = <<>>
    /\ logs = <<>>
    /\ printed = <<>>
    /\ report = None
    /\ err = None
    /\ listed = <<>>
    /\ runs = <<>>
    /\ origin = <<>>

\* process_results: the results directory does not exist
MissingRoot ==
    /\ pc = "main"
    /\ ~rootExists
    /\ printed' = Append(printed, MissingWarning)
    /\ pc' = "aggregated"
    /\ UNCHANGED <<call, ret, rootExists, appsLeft, app, result_files,
                   iteration, run_id, data, steps, logs, report, err, listed,
                   runs, origin>>

\* process_results: os.listdir(directory)
ListRoot ==
    /\ pc = "main"
    /\ rootExists
    /\ \E l \in RootListings : appsLeft' = l
    /\ pc' = "apps"
    /\ UNCHANGED <<call, ret, rootExists, app, result_files, iteration, run_id,
                   data, steps, logs, printed, report, err, listed, runs,
                   origin>>

\* the next entry of the root is not a directory
SkipEntry ==
    /\ pc = "apps"
    /\ Len(appsLeft) > 0
    /\ ~Head(appsLeft).isdir
    /\ appsLeft' = Tail(appsLeft)
    /\ UNCHANGED <<call, ret, pc, rootExists, app, result_files, iteration,
                   run_id, data, steps, logs, printed, report, err, listed,
                   runs, origin>>

\* the next entry is an application directory: list and filter its files
ListApp ==
    /\ pc = "apps"
    /\ Len(appsLeft) > 0
    /\ Head(appsLeft).isdir
    /\ \E l \in AppListings :
          /\ result_files' = SelectSeq(l, IsResultFile)
          /\ listed' = Append(listed, [app |-> Head(appsLeft).name, files |-> l])
    /\ app' = Head(appsLeft).name
    /\ appsLeft' = Tail(appsLeft)
    /\ iteration' = 0
    /\ pc' = "files"
    /\ UNCHANGED <<call, ret, rootExists, run_id, data, steps, logs, printed,
                   report, err, runs, origin>>

\* the loop over the applications is over: the two tables are returned
ReturnTables ==
    /\ pc = "apps"
    /\ Len(appsLeft) = 0
    /\ pc' = "aggregated"
    /\ UNCHANGED <<call, ret, rootExists, appsLeft, app, result_files,
                   iteration, run_id, data, steps, logs, printed, report, err,
                   listed, runs, origin>>

\* the next result file is numbered and read
ReadFile ==
    /\ pc = "files"
    /\ iteration < Len(result_files)
    /\ \E content \in FileContents :
          /\ Len(steps) + Len(content) <= MaxRows
          /\ data' = content
    /\ run_id' = RunId(app, iteration)
    /\ runs' = Append(runs, [app |-> app,
                             file |-> result_files[iteration + 1],
                             run_id |-> RunId(app, iteration)])
    /\ pc' = "steps"
    /\ UNCHANGED <<call, ret, rootExists, appsLeft, app, result_files,
                   iteration, steps, logs, printed, report, err, listed,
                   origin>>

\* the next result file does not hold JSON: json.load raises
ReadFileFails ==
    /\ pc = "files"
    /\ iteration < Len(result_files)
    /\ run_id' = RunId(app, iteration)
    /\ runs' = Append(runs, [app |-> app,
                             file |-> result_files[iteration + 1],
                             run_id |-> RunId(app, iteration)])
    /\ err' = [t |-> "JSONDecodeError"]
    /\ pc' = "error"
    /\ UNCHANGED <<call, ret, rootExists, appsLeft, app, result_files,
                   iteration, data, steps, logs, printed, report, listed,
                   origin>>

\* the files of the application are exhausted
FilesDone ==
    /\ pc = "files"
    /\ iteration = Len(result_files)
    /\ pc' = "apps"
    /\ UNCHANGED <<call, ret, rootExists, appsLeft, app, result_files,
                   iteration, run_id, data, steps, logs, printed, report, err,
                   listed, runs, origin>>

\* one step of the file becomes a step row and, maybe, a log row
FlattenStep ==
    /\ pc = "steps"
    /\ Len(data) > 0
    /\ LET step == Head(data)
           outcome == LogOutcome(app, run_id, step)
       IN /\ steps' = Append(steps, StepInfo(app, run_id, step))
          /\ origin' = Append(origin, [file |-> Len(runs), step |-> step])
          /\ logs' = logs \o outcome.rows
          /\ IF outcome.raised.t = "None"
             THEN /\ data' = Tail(data)
                  /\ UNCHANGED <<pc, err>>
             ELSE /\ err' = outcome.raised
                  /\ pc' = "error"
                  /\ UNCHANGED data
    /\ UNCHANGED <<call, ret, rootExists, appsLeft, app, result_files,
                   iteration, run_id, printed, report, listed, runs>>

\* the steps of the file are exhausted
StepsDone ==
    /\ pc = "steps"
    /\ Len(data) = 0
    /\ iteration' = iteration + 1
    /\ pc' = "files"
    /\ UNCHANGED <<call, ret, rootExists, appsLeft, app, result_files, run_id,
                   data, steps, logs, printed, report, err, listed, runs,
                   origin>>

\* main: the step table is empty
NoReport ==
    /\ pc = "aggregated"
    /\ IsEmpty(steps)
    /\ printed' = Append(printed, NoResultsNotice)
    /\ pc' = "done"
    /\ UNCHANGED <<call, ret, rootExists, appsLeft, app, result_files,
                   iteration, run_id, data, steps, logs, report, err, listed,
                   runs, origin>>

\* main: create_report plots the tables and writes the document
CreateReport ==
    /\ pc = "aggregated"
    /\ ~IsEmpty(steps)
    /\ report' = [t |-> "html",
                  plots |-> <<"iterations", "elapsed_time",
                              "lammps_wall_time", "lammps_cpu">>,
                  diffs |-> generate_all_diffs_html(steps)]
    /\ printed' = Append(printed, ReportNotice)
    /\ pc' = "done"
    /\ UNCHANGED <<call, ret, rootExists, appsLeft, app, result_files,
                   iteration, run_id, data, steps, logs, err, listed, runs,
                   origin>>

\* main: create_report plots the log table unconditionally; whether the
\* plotting library accepts a table without rows and columns is the
\* library's business, so with an empty log table it may also raise
CreateReportFails ==
    /\ pc = "aggregated"
    /\ ~IsEmpty(steps)
    /\ IsEmpty(logs)
    /\ err' = [t |-> "ValueError",
               msg |-> [fmt |-> "Could not interpret value {} for x",
                        arg |-> <<"application">>]]
    /\ pc' = "error"
    /\ UNCHANGED <<call, ret, rootExists, appsLeft, app, result_files,
                   iteration, run_id, data, steps, logs, printed, report,
                   listed, runs, origin>>

Next ==
    \/ MissingRoot
    \/ ListRoot
    \/ SkipEntry
    \/ ListApp
    \/ ReturnTables
    \/ ReadFile
    \/ ReadFileFails
    \/ FilesDone
    \/ FlattenStep
    \/ StepsDone
    \/ NoReport
    \/ CreateReport
    \/ CreateReportFails

Spec == Init /\ [][Next]_vars

(***************************************************************************)
(* Properties of main().                                                   *)
(***************************************************************************)
\* the string after the wall-time marker in the first "log" entry of a
\* scheduled-job step; None when the step has no such entry or no marker
FirstLogText(step) ==
    IF "metadata" \in DOMAIN step /\ "logs" \in DOMAIN step.metadata
    THEN LET entries == step.metadata.logs
             at == {i \in 1..Len(entries) : entries[i].type = "log"}
         IN IF at = {} THEN None
            ELSE PyStr(entries[CHOOSE i \in at : \A j \in at : i <= j].item)
    ELSE None
WallString(step) ==
    LET text == FirstLogText(step)
    IN IF step.agent # "kubernetes-job" \/ text.t = "None" THEN None
       ELSE LET at == {l \in 1..Len(text.s) : Contains(text.s[l], TWT)}
            IN IF at = {} THEN None
               ELSE PyStr(AfterMarker(text.s[CHOOSE l \in at : \A m \in at : l <= m]))
\* non-empty, not "inf", not numeric, no colon
Malformed(str) ==
    /\ str # <<>>
    /\ str # <<"i", "n", "f">>
    /\ \E i \in 1..Len(str) : str[i] \notin Digits
    /\ \A i \in 1..Len(str) : str[i] # ":"

\* C3: a string that is non-empty, not "inf", not numeric and without a
\* colon makes convert_walltime_to_seconds raise a ValueError naming it;
\* nothing catches it: when it follows the wall-time marker in the first log
\* entry of a scheduled-job step, that step is the last one processed, the
\* run ends in error with that exception, and no report is written.
C3_MalformedAborts ==
    /\ pc = "main" =>
          \A str \in WtStrings \cup WtExamples :
              Malformed(str) =>
                  convert_walltime_to_seconds(PyStr(str))
                      = ValueError(WalltimeMsg(str))
    /\ pc = "error" => report.t = "None"
    /\ err.t # "None" => pc = "error"
    /\ \A i \in 1..Len(origin) :
          LET w == WallString(origin[i].step)
          IN (w.t = "str" /\ Malformed(w.s)) =>
                /\ i = Len(origin)
                /\ pc = "error"
                /\ err.t = "ValueError"
                /\ err.msg = WalltimeMsg(w.s)
                /\ report.t = "None"

\* C3 witness: after one step was flattened, a step whose log says
\* "Total wall time: abc" has ended the run
C3_Witness ==
    /\ pc = "error"
    /\ Len(steps) = 2
    /\ err.t = "ValueError"
    /\ err.msg.arg = <<"a", "b", "c">>
    /\ report.t = "None"

\* a name that starts with "results-" and ends with ".json"
Matches(name) == name[1] = "results-" /\ name[Len(name)] = ".json"
\* the listing of directory l has been enumerated to its end
Enumerated(l) == l < Len(listed) \/ pc \in {"apps", "aggregated", "done"}

\* C6: each matching result file is one run: the files of an application
\* directory with N matching files get exactly app-1, ..., app-N in
\* enumeration order, every step row carries the identifier of its file, and
\* no two files share an identifier.
C6_RunIdentifiers ==
    /\ \A i, j \in 1..Len(runs) : i # j => runs[i].run_id # runs[j].run_id
    /\ \A i \in 1..Len(runs) :
          LET k == Cardinality({j \in 1..i : runs[j].app = runs[i].app})
              found == SelectSeq(
                  (CHOOSE d \in {listed[l] : l \in 1..Len(listed)} :
                       d.app = runs[i].app).files, Matches)
          IN /\ runs[i].run_id = runs[i].app \o <<"-", ToString(k)>>
             /\ runs[i].file = found[k]
    /\ \A i \in 1..Len(steps) :
          /\ steps[i].run_id = runs[origin[i].file].run_id
          /\ steps[i].application = runs[origin[i].file].app
    /\ \A l \in 1..Len(listed) :
          Enumerated(l) =>
              LET n == Cardinality({f \in 1..Len(listed[l].files) :
                                       Matches(listed[l].files[f])})
              IN {runs[i].run_id : i \in {j \in 1..Len(runs) :
                                              runs[j].app = listed[l].app}}
                 = {listed[l].app \o <<"-", ToString(k)>> : k \in 1..n}

\* C6 witness: a run over the applications "a-1" and "a" has ended with one
\* row from each of the two result files of one of them
C6_Witness ==
    /\ pc = "done"
    /\ Len(listed) = 2
    /\ Len(steps) = 2
    /\ steps[1].application = steps[2].application
    /\ steps[1].run_id # steps[2].run_id
    /\ Len(listed[1].files) > Len(SelectSeq(listed[1].files, Matches))

\* the log rows process_results owes to the step rows i..Len(steps)
RECURSIVE LogRowsFrom(_)
LogRowsFrom(i) ==
    IF i > Len(steps) THEN <<>>
    ELSE LET step == origin[i].step
             text == FirstLogText(step)
             parsed == IF text.t = "None" THEN None ELSE parse_lammps_log(text.s)
             owed == /\ step.agent = "kubernetes-job"
                     /\ parsed.t = "tuple"
                     /\ parsed.wall_time.t # "None"
                     /\ parsed.cpu_utilization.t # "None"
         IN (IF owed
             THEN <<[run_id |-> steps[i].run_id,
                     application |-> steps[i].application,
                     wall_time |-> parsed.wall_time,
                     cpu_utilization |-> parsed.cpu_utilization]>>
             ELSE <<>>)
            \o LogRowsFrom(i + 1)

\* C7: a Log Record is appended for a step if and only if its role is
\* "kubernetes-job", its metadata has a log entry of type "log" and the
\* payload of the first such entry parses to a wall time and a CPU
\* utilization that are both not None (a wall time of 0 counts); at most one
\* per step, none for any other role.
C7_LogRecordIff ==
    /\ Len(origin) = Len(steps)
    /\ logs = LogRowsFrom(1)

\* C7 witness: a build step whose log has both figures left no Log Record,
\* and a scheduled-job step whose wall time is 0 left one
C7_Witness ==
    /\ Len(steps) = 2
    /\ steps[1].agent = "build"
    /\ "logs" \in DOMAIN steps[1].metadata
    /\ steps[2].agent = "kubernetes-job"
    /\ Len(logs) = 1
    /\ logs[1].wall_time.n = 0
    /\ logs[1].run_id = steps[2].run_id

\* C8 (as stated): every Log Record's cpu_utilization lies in [0,100] and
\* every Step Record's attempts is at least 1.
C8_Ranges ==
    /\ \A i \in 1..Len(logs) :
          /\ logs[i].cpu_utilization.n >= 0
          /\ logs[i].cpu_utilization.n <= 100 * logs[i].cpu_utilization.d
    /\ \A i \in 1..Len(steps) : steps[i].attempts >= 1

\* C8 (amended): every Log Record's cpu_utilization is the non-negative
\* figure the log states, whatever its size, and every Step Record's attempts
\* is the input's attempts field (0 when absent) plus 1, hence at least 1
\* exactly when that field is absent or not negative.
C8_AsRecorded ==
    /\ \A i \in 1..Len(logs) :
          /\ logs[i].cpu_utilization.n >= 0
          /\ logs[i].cpu_utilization.d > 0
    /\ \A i \in 1..Len(steps) :
          LET given == IF "attempts" \in DOMAIN origin[i].step
                       THEN origin[i].step.attempts ELSE 0
          IN /\ steps[i].attempts = given + 1
             /\ steps[i].attempts >= 1 <=> given >= 0

\* C8 witness: a log stating 250.0% CPU use and a step with attempts -1 have
\* been recorded
C8_Witness ==
    /\ \E i \in 1..Len(logs) :
          logs[i].cpu_utilization.n > 100 * logs[i].cpu_utilization.d
    /\ \E i \in 1..Len(steps) : steps[i].attempts = 0
    /\ \E i \in 1..Len(steps) :
          "attempts" \notin DOMAIN origin[i].step /\ steps[i].attempts = 1

\* C10: a run whose results root is missing or empty, or that yields no
\* step rows, prints the notice and returns without raising and without
\* writing the report; the report is written only when the step table is
\* non-empty, and only after the aggregation has completed.
C10_NoReportWithoutRows ==
    /\ (pc = "done" /\ Len(steps) = 0) =>
          /\ report.t = "None"
          /\ err.t = "None"
          /\ printed[Len(printed)] = NoResultsNotice
    /\ report.t # "None" =>
          /\ pc = "done"
          /\ Len(steps) > 0
          /\ Len(appsLeft) = 0
          /\ \A l \in 1..Len(listed) :
                Cardinality({i \in 1..Len(runs) : runs[i].app = listed[l].app})
                    = Len(SelectSeq(listed[l].files, Matches))
    /\ pc = "error" => (Len(steps) > 0 \/ err.t = "JSONDecodeError")
    /\ ~rootExists =>
          /\ pc \in {"main", "aggregated", "done"}
          /\ Len(steps) = 0
          /\ pc # "main" => printed[1] = MissingWarning
    /\ (pc = "aggregated" /\ Len(steps) = 0) => ENABLED NoReport

\* C10 witness: a run over result files that hold empty arrays has returned
\* after the notice, without a report
C10_Witness ==
    /\ pc = "done"
    /\ rootExists
    /\ Len(runs) = 2
    /\ Len(steps) = 0
    /\ report.t = "None"
    /\ printed = <<NoResultsNotice>>

====
